---------------------------- MODULE Spec2Model ----------------------------
(***************************************************************************)
(* A model of ardump.c, the BSD ar table-of-contents dumper.               *)
(*                                                                         *)
(* The input file is a sequence of bytes (buf).  The program is dump():    *)
(* it validates the magic, then walks the member headers; for a member     *)
(* whose name matches an index name it runs dump_symdefs().  Every libc    *)
(* routine the walk relies on (strncmp, atoi, strtoll, the %s conversion)  *)
(* is computed byte by byte, as the C library computes it.                 *)
(*                                                                         *)
(* The program reads through raw pointers without bounds checks.  A read   *)
(* outside the mapped file is undefined behaviour: what it yields depends  *)
(* on what the address space holds around the mapping.  That environment   *)
(* is the variable slack: how many bytes before and after the file are     *)
(* readable, and the byte they hold.  A read outside file and slack is a   *)
(* fault (SIGSEGV/SIGBUS), which ends the run with outcome "Crash".        *)
(*                                                                         *)
(* g_verbose is a program-wide flag fixed before dump() is called.  The    *)
(* model runs dump() once for each value of g_verbose over the same file,  *)
(* side by side (run[FALSE] and run[TRUE]), so that the two runs can be    *)
(* compared.  The host is little-endian, as the code assumes of its input, *)
(* and the build is the unoptimised one the file's first comment gives.    *)
(***************************************************************************)
EXTENDS Integers, Sequences, FiniteSets, TLC

VARIABLES buf, slack, run

vars == <<buf, slack, run>>

---------------------------------------------------------------------------
(* Constants of <ar.h>, <mach-o/fat.h> and <mach-o/ranlib.h>.  Strings are *)
(* sequences of ASCII codes.                                               *)

\* "!<arch>\n"
ARMAG == <<33, 60, 97, 114, 99, 104, 62, 10>>
SARMAG == 8
\* "#1/"
AR_EFMT1 == <<35, 49, 47>>
\* "`\n"
ARFMAG == <<96, 10>>
\* "__.SYMDEF"
SYMDEF == <<95, 95, 46, 83, 89, 77, 68, 69, 70>>
\* "__.SYMDEF SORTED"
SYMDEF_SORTED == <<95, 95, 46, 83, 89, 77, 68, 69, 70, 32, 83, 79, 82, 84, 69, 68>>

\* A uint32_t is kept as <<high 16 bits, low 16 bits>> where its value is
\* only compared: 0xcafebabe does not fit TLC's 32-bit integers.
FAT_MAGIC == <<51966, 47806>>
FAT_CIGAM == <<48826, 65226>>

\* struct ar_hdr: ar_name[16] ar_date[12] ar_uid[6] ar_gid[6] ar_mode[8]
\* ar_size[10] ar_fmag[2]
sizeof_ar_name == 16
sizeof_ar_date == 12
sizeof_ar_uid == 6
sizeof_ar_gid == 6
sizeof_ar_mode == 8
sizeof_ar_size == 10
sizeof_ar_fmag == 2
off_ar_date == sizeof_ar_name
off_ar_uid == off_ar_date + sizeof_ar_date
off_ar_gid == off_ar_uid + sizeof_ar_uid
off_ar_mode == off_ar_gid + sizeof_ar_gid
off_ar_size == off_ar_mode + sizeof_ar_mode
off_ar_fmag == off_ar_size + sizeof_ar_size
sizeof_ar_hdr == off_ar_fmag + sizeof_ar_fmag

\* struct ranlib { uint32_t ran_strx; uint32_t ran_off; }
sizeof_ranlib == 8
sizeof_uint32 == 4

---------------------------------------------------------------------------
(* Bounds of the model.                                                    *)

\* Readable bytes after the end of the file, when there are any (the rest
\* of the last mapped page).
MaxAfter == 24
\* Readable bytes before the start of the file, when there are any.
MaxBefore == 8
\* Loop iterations of dump() explored per run (the loop need not end).
MaxSteps == 5

---------------------------------------------------------------------------
(* Memory.                                                                 *)

\* What a read of an unmapped address yields: no byte.
FAULT == 0 - 1

length == Len(buf)

\* The byte at file offset o: *(char*)(file_start + o).
Rd(o) ==
  IF o >= 0 /\ o < length THEN buf[o + 1]
  ELSE IF o >= 0 - slack.before /\ o < length + slack.after THEN slack.byte
  ELSE FAULT

\* Reading n bytes at offset a touches only mapped memory.
Mapped(a, n) == n <= 0 \/ (a >= 0 - slack.before /\ a + n <= length + slack.after)

\* Reading n bytes at offset a stays inside the file, [0, length).
InBuf(a, n) == n <= 0 \/ (a >= 0 /\ a + n <= length)

\* The n bytes at offset a.
Bytes(a, n) == [i \in 1..n |-> Rd(a + i - 1)]

\* *(uint32_t*)(file_start + a) on a little-endian host, as two halves.
U32Halves(a) == <<Rd(a + 2) + 256 * Rd(a + 3), Rd(a) + 256 * Rd(a + 1)>>

\* The same read as a number.
U32(a) == Rd(a) + 256 * Rd(a + 1) + 65536 * Rd(a + 2) + 16777216 * Rd(a + 3)

---------------------------------------------------------------------------
(* libc.  Each routine returns its value v and rd, the number of bytes it  *)
(* read starting at its pointer argument; an unmapped byte stops it.       *)

RECURSIVE strncmpAt(_, _, _, _)
strncmpAt(a, lit, n, i) ==
  IF i >= n THEN [v |-> 0, rd |-> i]
  ELSE LET c1 == Rd(a + i)
           c2 == IF i < Len(lit) THEN lit[i + 1] ELSE 0
       IN IF c1 # c2 THEN [v |-> 1, rd |-> i + 1]
          ELSE IF c1 = 0 THEN [v |-> 0, rd |-> i + 1]
          ELSE strncmpAt(a, lit, n, i + 1)

\* strncmp(file_start + a, lit, n): v = 0 when equal, 1 when not.
strncmp(a, lit, n) == strncmpAt(a, lit, n, 0)

isspace(c) == c \in {32, 9, 10, 11, 12, 13}
isdigit(c) == c >= 48 /\ c <= 57

\* Byte i of the text at a; the text ends (reads NUL) at index lim.
TextByte(a, i, lim) == IF lim >= 0 /\ i >= lim THEN 0 ELSE Rd(a + i)

RECURSIVE SkipSpaceAt(_, _, _)
SkipSpaceAt(a, i, lim) ==
  IF isspace(TextByte(a, i, lim)) THEN SkipSpaceAt(a, i + 1, lim) ELSE i

RECURSIVE DigitsAt(_, _, _, _)
DigitsAt(a, i, lim, acc) ==
  LET c == TextByte(a, i, lim)
  IN IF isdigit(c) THEN DigitsAt(a, i + 1, lim, 10 * acc + (c - 48))
     ELSE [v |-> acc, rd |-> i + 1]

\* The decimal conversion atoi and strtoll(.., 10) share: white space, an
\* optional sign, digits up to the first byte that is no digit.
ParseDec(a, lim) ==
  LET s == SkipSpaceAt(a, 0, lim)
      c == TextByte(a, s, lim)
      d == DigitsAt(a, IF c \in {43, 45} THEN s + 1 ELSE s, lim, 0)
  IN [v |-> IF c = 45 THEN 0 - d.v ELSE d.v, rd |-> d.rd]

\* atoi(file_start + a): nothing bounds it but the text itself.
atoi(a) == ParseDec(a, 0 - 1)

RECURSIVE CStrLenAt(_, _)
CStrLenAt(a, i) ==
  IF Rd(a + i) = 0 \/ Rd(a + i) = FAULT THEN i ELSE CStrLenAt(a, i + 1)

\* printf("%s", file_start + a): the bytes up to the first NUL.
CStr(a) == LET n == CStrLenAt(a, 0) IN [v |-> Bytes(a, n), rd |-> n + 1]

RECURSIVE printnAt(_, _, _)
printnAt(a, n, i) ==
  IF i >= n THEN [v |-> Bytes(a, i), rd |-> i]
  ELSE IF Rd(a + i) = 0 \/ Rd(a + i) = FAULT THEN [v |-> Bytes(a, i), rd |-> i + 1]
  ELSE printnAt(a, n, i + 1)

\* printn(str, n) and mprintn(m, str, n): for (i = 0; i < n && str[i]; ++i).
printn(a, n) == printnAt(a, n, 0)

RECURSIVE UntilNulAt(_, _)
UntilNulAt(s, i) ==
  IF i > Len(s) THEN s
  ELSE IF s[i] = 0 THEN SubSeq(s, 1, i - 1)
  ELSE UntilNulAt(s, i + 1)

\* What %s prints of a copy that is NUL-terminated after its last byte.
UntilNul(s) == UntilNulAt(s, 1)

---------------------------------------------------------------------------
(* The state of one run of dump().                                         *)

\* pc: where the run is.  outcome: how it ended ("none" while it runs).
\* contents: the walk's offset.  steps: loop iterations started.
\* visited: header offsets the loop has read.  reported: dump_obj's output.
\* names: what arobj_name returned, and to whom.  decodes: the calls of
\* dump_symdefs (the payload offset, the two length fields or -1 when the
\* read faulted, the pairs printed as pairs[start+1 .. start+n], whether
\* the call returned, whether it read outside the file).  pairs: the
\* symbol lines printed.  oob: some read left [0, length).
InitRun ==
  [pc |-> "validating", outcome |-> "none", contents |-> 0, steps |-> 0,
   visited |-> {}, reported |-> {}, names |-> {}, decodes |-> {},
   pairs |-> <<>>, oob |-> FALSE]

\* fatal(): exit(1) with the message's outcome; a fault ends the run too.
Stop(r, oc) == [r EXCEPT !.pc = "done", !.outcome = oc]

\* The one element of a singleton.  A run record that a definition uses
\* more than once is bound as { .. : x \in {r} }, which evaluates it once.
The(S) == CHOOSE y \in S : TRUE

\* The run reads the ranges rds (pairs <<offset, byte count>>).
AccessAll(r, rds) ==
  The({ IF x.pc = "done" THEN x
        ELSE IF \E y \in rds : ~Mapped(y[1], y[2])
             THEN Stop([x EXCEPT !.oob = TRUE], "Crash")
        ELSE [x EXCEPT !.oob = @ \/ (\E y \in rds : ~InBuf(y[1], y[2]))]
        : x \in {r} })

Access(r, a, n) == AccessAll(r, {<<a, n>>})

---------------------------------------------------------------------------
(* arobj_name                                                              *)

RECURSIVE DirectLenAt(_, _)
DirectLenAt(header, i) ==
  LET c == Rd(header + i)
  IN IF c = 0 \/ c = FAULT THEN [v |-> i, rd |-> i + 1]
     ELSE IF ~(i < sizeof_ar_name) THEN [v |-> i, rd |-> i + 1]
     ELSE DirectLenAt(header, i + 1)

\* A slip: the whole field is taken, NUL or not.
DirectLenWholeField(header) == [v |-> sizeof_ar_name, rd |-> sizeof_ar_name]

\* for (int i = 0; header->ar_name[i] && i < sizeof(header->ar_name); ++i)
\*   ++*out_len;
DirectLen(header) == DirectLenAt(header, 0)

\* arobj_name(header, &name, &len): is_bsd is its return value, name the
\* offset *out_name points at, len is *out_len, rds what it read.  The
\* inputs explored carry no sign after "#1/", so the conversion of atoi's
\* int to size_t changes nothing.
arobj_name(header) ==
  LET c == strncmp(header, AR_EFMT1, Len(AR_EFMT1))
  IN IF c.v # 0
     THEN LET d == DirectLen(header)
          IN [is_bsd |-> FALSE, name |-> header, len |-> d.v,
              rds |-> {<<header, c.rd>>, <<header, d.rd>>}]
     ELSE LET n == atoi(header + Len(AR_EFMT1))
          IN [is_bsd |-> TRUE, name |-> header + sizeof_ar_hdr, len |-> n.v,
              rds |-> {<<header, c.rd>>, <<header + Len(AR_EFMT1), n.rd>>}]

\* A call of arobj_name by `by`, recorded when it returns.
Resolve(r, header, by) ==
  The({ IF x.pc = "done" THEN x
        ELSE The({ The({ IF x1.pc = "done" THEN x1
                         ELSE [x1 EXCEPT !.names = @ \cup
                                 {[hdr |-> header, is_bsd |-> nm.is_bsd,
                                   name |-> nm.name, len |-> nm.len, by |-> by]}]
                         : x1 \in {AccessAll(x, nm.rds)} })
                   : nm \in {arobj_name(header)} })
        : x \in {r} })

---------------------------------------------------------------------------
(* dump_obj, arobj_size                                                    *)

\* The ranges mprintn reads for ar_date .. ar_fmag.
FieldReads(header) ==
  { <<header + f[1], printn(header + f[1], f[2]).rd>> :
      f \in { <<off_ar_date, sizeof_ar_date>>, <<off_ar_uid, sizeof_ar_uid>>,
              <<off_ar_gid, sizeof_ar_gid>>, <<off_ar_mode, sizeof_ar_mode>>,
              <<off_ar_size, sizeof_ar_size>>, <<off_ar_fmag, sizeof_ar_fmag>> } }

dump_obj(r, header) ==
  LET r1 == Resolve(r, header, "walk")
      nm == arobj_name(header)
      pn == printn(nm.name, nm.len)
      r2 == Access(r1, nm.name, pn.rd)
      r3 == AccessAll(r2, FieldReads(header))
      fm == strncmp(header + off_ar_fmag, ARFMAG, Len(ARFMAG))
      r4 == Access(r3, header + off_ar_fmag, fm.rd)
  IN The({ IF x.pc = "done" THEN x
           ELSE IF fm.v # 0
                THEN Stop([x EXCEPT !.reported = @ \cup
                             {[hdr |-> header, name |-> pn.v, is_bsd |-> nm.is_bsd]}],
                          "MalformedHeader")
           ELSE [x EXCEPT !.reported = @ \cup
                   {[hdr |-> header, name |-> pn.v, is_bsd |-> nm.is_bsd]}]
           : x \in {r4} })

\* memcpy of ar_size, a NUL after it, strtoll(buf, NULL, 10) + sizeof(*header)
arobj_size(header) == ParseDec(header + off_ar_size, sizeof_ar_size).v + sizeof_ar_hdr

---------------------------------------------------------------------------
(* dump_symdefs                                                            *)

\* A slip: struct ranlib taken to be 16 bytes, its size where ran_un holds
\* a 64-bit pointer.
NRanlibsWide(ranlib_len) == ranlib_len \div (2 * sizeof_ranlib)

\* uint32_t nranlibs = ranlib_len / sizeof(struct ranlib);
NRanlibs(ranlib_len) == ranlib_len \div sizeof_ranlib

\* The body of the loop for entry i: the member's name, then the line.
symdefs_entry(r, ranlib, strtab, i) ==
  LET e == ranlib + i * sizeof_ranlib
      r1 == Access(r, e + sizeof_uint32, sizeof_uint32)
      ran_off == U32(e + sizeof_uint32)
      r2 == Resolve(r1, ran_off, "symdefs")
      nm == arobj_name(ran_off)
      r3 == Access(r2, nm.name, nm.len)
      r4 == Access(r3, e, sizeof_uint32)
      ran_strx == U32(e)
      sym == CStr(strtab + ran_strx)
      r5 == Access(r4, strtab + ran_strx, sym.rd)
  IN The({ IF x.pc = "done" THEN x
           ELSE [x EXCEPT !.pairs = Append(@,
                   [sym |-> sym.v, member |-> UntilNul(Bytes(nm.name, nm.len)),
                    ran_strx |-> ran_strx, ran_off |-> ran_off])]
           : x \in {r5} })

\* for (int i = 0; i < nranlibs; ++i, ++ranlib) { ... }
RECURSIVE symdefs_loop(_, _, _, _, _)
symdefs_loop(r, ranlib, strtab, i, nranlibs) ==
  The({ IF x.pc = "done" \/ ~(i < nranlibs) THEN x
        ELSE symdefs_loop(symdefs_entry(x, ranlib, strtab, i), ranlib, strtab,
                          i + 1, nranlibs)
        : x \in {r} })

dump_symdefs(r, header, offset) ==
  LET data == header + sizeof_ar_hdr + offset
      ranlib_len == U32(data)
      ranlib == data + sizeof_uint32
      data2 == data + ranlib_len + sizeof_uint32
      strtab == data2 + sizeof_uint32
  IN The({ The({ The({ The({
       [x3 EXCEPT !.oob = x.oob \/ x3.oob, !.decodes = @ \cup
          {[hdr |-> header, data |-> data,
            ranlib_len |-> IF x1.pc = "done" THEN 0 - 1 ELSE ranlib_len,
            strtab_len |-> IF x2.pc = "done" THEN 0 - 1 ELSE U32(data2),
            start |-> Len(x.pairs), n |-> Len(x3.pairs) - Len(x.pairs),
            completed |-> x3.pc # "done", oob |-> x3.oob]}]
       : x3 \in {symdefs_loop(x2, ranlib, strtab, 0, NRanlibs(ranlib_len))} })
       : x2 \in {Access(x1, data2, sizeof_uint32)} })
       : x1 \in {Access([x EXCEPT !.oob = FALSE], data, sizeof_uint32)} })
       : x \in {r} })

---------------------------------------------------------------------------
(* dump                                                                    *)

\* A slip: only one byte order is tested.
IsFatOneOrder(v) == v = FAT_MAGIC

\* v == FAT_MAGIC || v == FAT_CIGAM
IsFat(v) == v = FAT_MAGIC \/ v = FAT_CIGAM

\* Lines 136-143: the magic test.
dump_magic(r) ==
  LET c == strncmp(0, ARMAG, SARMAG)
      r1 == Access(r, 0, c.rd)
  IN IF r1.pc = "done" THEN r1
     ELSE IF c.v # 0
     THEN LET r2 == Access(r1, 0, sizeof_uint32)
          IN IF r2.pc = "done" THEN r2
             ELSE IF IsFat(U32Halves(0)) THEN Stop(r2, "UnsupportedFormat")
             ELSE Stop(r2, "InvalidFormat")
     ELSE [r1 EXCEPT !.pc = "scanning", !.contents = SARMAG]

\* Lines 153-156: the index test and the call of dump_symdefs.
dump_index(r, header) ==
  LET nm == arobj_name(header)
      c1 == strncmp(nm.name, SYMDEF, nm.len)
      c2 == strncmp(nm.name, SYMDEF_SORTED, nm.len)
      r3 == Access(r, nm.name, c1.rd)
      r4 == IF c1.v = 0 THEN r3 ELSE Access(r3, nm.name, c2.rd)
  IN The({ IF x.pc # "done" /\ (c1.v = 0 \/ c2.v = 0)
           THEN dump_symdefs(x, header, IF nm.is_bsd THEN nm.len ELSE 0)
           ELSE x
           : x \in {r4} })

\* Lines 146-158: one iteration of the while loop.
dump_iter(r, g_verbose) ==
  The({ LET header == x.contents
            r0 == [x EXCEPT !.visited = @ \cup {header}, !.steps = @ + 1]
            r1 == IF g_verbose THEN dump_obj(r0, header) ELSE r0
            r2 == Resolve(r1, header, "walk")
            r5 == dump_index(r2, header)
            r6 == Access(r5, header + off_ar_size, sizeof_ar_size)
        IN The({ IF y.pc = "done" THEN y
                 ELSE [y EXCEPT !.contents = @ + arobj_size(header)]
                 : y \in {r6} })
        : x \in {r} })

---------------------------------------------------------------------------
(* Actions: the steps of dump() in the run with the given g_verbose.       *)

Validate(g_verbose) ==
  /\ run[g_verbose].pc = "validating"
  /\ run' = [run EXCEPT ![g_verbose] = dump_magic(@)]
  /\ UNCHANGED <<buf, slack>>

ScanStep(g_verbose) ==
  /\ run[g_verbose].pc = "scanning"
  /\ run[g_verbose].contents < length
  /\ run[g_verbose].steps < MaxSteps
  /\ run' = [run EXCEPT ![g_verbose] = dump_iter(@, g_verbose)]
  /\ UNCHANGED <<buf, slack>>

\* The loop's exit: dump() returns and main ends with status 0.
Return(g_verbose) ==
  /\ run[g_verbose].pc = "scanning"
  /\ ~(run[g_verbose].contents < length)
  /\ run' = [run EXCEPT ![g_verbose] = Stop(@, "success")]
  /\ UNCHANGED <<buf, slack>>

---------------------------------------------------------------------------
(* The files explored: byte sequences laid out as the code reads them.     *)

Pad(s, n, c) == s \o [i \in 1..(n - Len(s)) |-> c]

RECURSIVE Dec(_)
Dec(n) == IF n < 10 THEN <<48 + n>> ELSE Dec(n \div 10) \o <<48 + (n % 10)>>

\* Decimal text of n, with its sign.
SignedDec(n) == IF n < 0 THEN <<45>> \o Dec(0 - n) ELSE Dec(n)

\* A uint32_t as the little-endian host stores it.
LE32(n) ==
  <<n % 256, (n \div 256) % 256, (n \div 65536) % 256, (n \div 16777216) % 256>>

Zeros(n) == [i \in 1..n |-> 0]

\* A struct ar_hdr: date "0", uid "0", gid "0", mode "644", space padded.
Header(name, size_text, fmag) ==
  name \o Pad(<<48>>, sizeof_ar_date, 32) \o Pad(<<48>>, sizeof_ar_uid, 32)
       \o Pad(<<48>>, sizeof_ar_gid, 32) \o Pad(<<54, 52, 52>>, sizeof_ar_mode, 32)
       \o Pad(size_text, sizeof_ar_size, 32) \o fmag

\* ar_name fields.  "foo.o" padded with spaces, "a.o" padded with NULs, an
\* empty name, "__.SYM", the index names, and "#1/<n>".
NameFoo == Pad(<<102, 111, 111, 46, 111>>, sizeof_ar_name, 32)
NameAO == Pad(<<97, 46, 111>>, sizeof_ar_name, 0)
NameEmpty == Zeros(sizeof_ar_name)
NamePrefix == Pad(<<95, 95, 46, 83, 89, 77>>, sizeof_ar_name, 0)
NameSymdefNul == Pad(SYMDEF, sizeof_ar_name, 0)
NameSymdefSp == Pad(SYMDEF, sizeof_ar_name, 32)
NameExt(n) == Pad(AR_EFMT1 \o Dec(n), sizeof_ar_name, 32)

\* "b.o\0", an extended name of 4 bytes.
ExtBO == <<98, 46, 111, 0>>

BadFmag == <<88, 88>>

\* What the size field says, given the member's true payload size n: n, an
\* overshoot, a total of 0, a total below 0, no number.
SizeTexts(n) ==
  { Dec(n), Dec(n + 5), SignedDec(0 - sizeof_ar_hdr),
    SignedDec(0 - sizeof_ar_hdr - 10), <<122, 122>> }

\* A member with a true size field: header, then body (an extended name,
\* if any, and the payload).
Member(name, body) == Header(name, Dec(Len(body)), ARFMAG) \o body

\* <<ar_name, body>> of the members that are no index.
PlainBodies ==
  { <<NameFoo, <<>>  >>, <<NameFoo, Zeros(8)>>, <<NameAO, <<>>  >>,
    <<NameEmpty, Zeros(8)>>, <<NamePrefix, Zeros(8)>>, <<NamePrefix, <<>>  >>,
    <<NameExt(4), ExtBO>>, <<NameExt(4), ExtBO \o <<7, 7>> >>,
    <<NameExt(20), <<>> >>, <<NameSymdefSp, Zeros(8)>> }

\* One member, well formed or not, alone or followed by a good member.
PlainArchivesOf(m) ==
  { ARMAG \o Header(m[1], st, fm) \o m[2] \o tail :
      st \in SizeTexts(Len(m[2])), fm \in {ARFMAG, BadFmag},
      tail \in {<<>>, Member(NameFoo, <<7>>)} }

PlainArchives == UNION { PlainArchivesOf(m) : m \in PlainBodies }

\* <<ar_name, extended name bytes>> of the index member.
IndexNames ==
  { <<NameSymdefNul, <<>> >>, <<SYMDEF_SORTED, <<>> >>,
    <<NameExt(9), SYMDEF>>, <<NameExt(12), SYMDEF \o Zeros(3)>>,
    <<NameExt(20), SYMDEF_SORTED \o Zeros(4)>> }

\* "_f\0" and "_f\0_g\0"
StrF == <<95, 102, 0>>
StrFG == <<95, 102, 0, 95, 103, 0>>

\* struct ranlib
Ranlib(ran_strx, ran_off) == LE32(ran_strx) \o LE32(ran_off)

\* Index payloads; base is the offset the payload starts at, so that
\* base + its size is the offset of the member after the index ("foo.o")
\* and sizeof_ar_hdr more the offset of the one after that.
IndexPayload(kind, base) ==
  CASE kind = "none" -> LE32(0) \o LE32(0)
    [] kind = "one" -> LE32(8) \o Ranlib(0, base + 19) \o LE32(3) \o StrF
    [] kind = "two" ->
         LE32(16) \o Ranlib(0, base + 30) \o Ranlib(3, base + 30 + sizeof_ar_hdr)
                  \o LE32(6) \o StrFG
    [] kind = "odd" ->
         LE32(12) \o Ranlib(0, base + 23) \o <<9, 9, 9, 9>> \o LE32(3) \o StrF
    [] kind = "faroff" -> LE32(8) \o Ranlib(0, 1000) \o LE32(3) \o StrF
    [] kind = "endoff" -> LE32(8) \o Ranlib(0, base + 19 + 129) \o LE32(3) \o StrF
    [] kind = "farstrx" -> LE32(8) \o Ranlib(200, base + 19) \o LE32(3) \o StrF
    [] kind = "biglen" -> LE32(64) \o Ranlib(0, base + 19) \o LE32(3) \o StrF
    [] kind = "cut" -> <<>>

IndexKinds ==
  {"none", "one", "two", "odd", "faroff", "endoff", "farstrx", "biglen", "cut"}

\* magic, index member, then "foo.o" (no payload) and "#1/4" "b.o" with a
\* payload of 5 bytes; a cut index is the file's last member.
IndexArchive(nm, kind) ==
  LET base == SARMAG + sizeof_ar_hdr + Len(nm[2])
      body == nm[2] \o IndexPayload(kind, base)
  IN ARMAG \o Member(nm[1], body) \o
       (IF kind = "cut" THEN <<>>
        ELSE Member(NameFoo, <<>>) \o Member(NameExt(4), ExtBO \o <<1, 2, 3, 4, 5>>))

\* An index whose one symbol belongs to a last member "#1/20" that the
\* file ends right after: the name's 20 bytes are not there.
IndexToCutName(nm) ==
  LET base == SARMAG + sizeof_ar_hdr + Len(nm[2])
  IN ARMAG \o Member(nm[1], nm[2] \o IndexPayload("one", base))
           \o Header(NameExt(20), Dec(20), ARFMAG) \o <<98, 46>>

IndexArchives ==
  { IndexArchive(nm, kind) : nm \in IndexNames, kind \in IndexKinds }
    \cup { IndexToCutName(nm) : nm \in IndexNames }

\* Files that are no archive: the fat magic in both byte orders, alone and
\* followed by more; a wrong magic; a file shorter than the magic.
FatBE == <<202, 254, 186, 190>>
FatLE == <<190, 186, 254, 202>>
OtherFiles ==
  { FatBE, FatLE, FatBE \o <<0, 0, 0, 2>> \o Member(NameFoo, <<>>),
    FatLE \o <<2, 0, 0, 0>> \o Member(NameFoo, <<>>),
    <<33, 60, 97, 114, 99, 104, 62, 88>> \o Member(NameFoo, <<>>),
    <<127, 69, 76, 70, 2, 1, 1, 0>>, <<33, 60, 97, 114>>, ARMAG }

Buffers == PlainArchives \cup IndexArchives \cup OtherFiles

\* What surrounds the mapping: nothing readable; the zero fill of the last
\* page; other memory after, or before and after, the file.
Slacks ==
  { [before |-> 0, after |-> 0, byte |-> 0],
    [before |-> 0, after |-> MaxAfter, byte |-> 0],
    [before |-> 0, after |-> MaxAfter, byte |-> 63],
    [before |-> MaxBefore, after |-> MaxAfter, byte |-> 63] }

---------------------------------------------------------------------------

Init ==
  /\ buf \in Buffers
  /\ slack \in Slacks
  /\ run = [g_verbose \in BOOLEAN |-> InitRun]

Next == \E g_verbose \in BOOLEAN :
          Validate(g_verbose) \/ ScanStep(g_verbose) \/ Return(g_verbose)

Spec == Init /\ [][Next]_vars

---------------------------------------------------------------------------
(* Properties.  A run is clean when no read of it has left the file.       *)

Clean(g) == ~run[g].oob

\* The header at h lies inside the file.
HeaderInBuf(h) == InBuf(h, sizeof_ar_hdr)

\* The run's iterations so far all went through: it is still scanning, or
\* it has returned.
Unfailed(g) == run[g].pc # "validating" /\ run[g].outcome \in {"none", "success"}

\* 0xcafebabe as the file stores it, high byte first and low byte first.
C1_FatMagicBytes == {<<202, 254, 186, 190>>, <<190, 186, 254, 202>>}

\* The file's first 4 bytes are the fat magic.
C1_StartsWithFat == length >= 4 /\ SubSeq(buf, 1, 4) \in C1_FatMagicBytes

\* C1: a file whose first 4 bytes are the fat magic, in either byte order,
\* ends in UnsupportedFormat and in nothing else, and before it ends no
\* header is read, no name resolved, no member and no symbol reported.
C1_FatIsUnsupported ==
  C1_StartsWithFat =>
    \A g \in BOOLEAN :
      /\ run[g].pc \in {"validating", "done"}
      /\ run[g].pc = "done" <=> run[g].outcome = "UnsupportedFormat"
      /\ run[g].pc = "validating" <=> run[g].outcome = "none"
      /\ run[g].visited = {} /\ run[g].names = {} /\ run[g].reported = {}
      /\ run[g].decodes = {} /\ run[g].pairs = <<>>

\* A fat file, in the byte order the host reads as FAT_CIGAM, has been
\* refused by both runs.
C1_Witness ==
  /\ length >= 4 /\ SubSeq(buf, 1, 4) = <<202, 254, 186, 190>>
  /\ \A g \in BOOLEAN : run[g].pc = "done" /\ run[g].outcome = "UnsupportedFormat"

\* The header at h does not end in ARFMAG.
C2_BadTerminator(h) == Bytes(h + off_ar_fmag, sizeof_ar_fmag) # ARFMAG

\* C2: whatever g_verbose is, once the walk has read a header whose
\* terminator is not ARFMAG the run has ended in MalformedHeader (so no
\* member after it is scanned).  Stated of clean runs.
C2_TerminatorEnforced ==
  \A g \in BOOLEAN :
    Clean(g) =>
      \A h \in run[g].visited :
        HeaderInBuf(h) /\ C2_BadTerminator(h) =>
          run[g].pc = "done" /\ run[g].outcome = "MalformedHeader"

\* The member at h reaches past the end of the file.
C3_Overshoots(h) == h + arobj_size(h) > length

\* C3: a run that ends in success ends with its offset at the file's
\* length, and no member it walked reached past the length; a walked
\* member that reaches past it ends the run in MalformedArchive.  Stated
\* of clean runs and of members whose terminator is right.
C3_EndsAtLength ==
  \A g \in BOOLEAN :
    Clean(g) =>
      /\ run[g].outcome = "success" => run[g].contents = length
      /\ \A h \in run[g].visited :
           HeaderInBuf(h) /\ ~C2_BadTerminator(h) /\ C3_Overshoots(h) =>
             /\ run[g].outcome # "success"
             /\ run[g].pc = "done" => run[g].outcome = "MalformedArchive"

\* The name field of the header at h starts with "#1/".
C4_IsExtended(h) == Bytes(h, Len(AR_EFMT1)) = AR_EFMT1

\* The extended name of the header at h does not lie inside the file.
C4_NameOverruns(h) ==
  ~InBuf(h + sizeof_ar_hdr, atoi(h + Len(AR_EFMT1)).v)

\* C4: an extended name that arobj_name returned, to the walk or to
\* dump_symdefs, is the len bytes right after its header and they lie
\* inside the file; a walked header whose extended name passes the end of
\* the file has ended the run in OutOfBounds.
C4_ExtendedNameInBounds ==
  \A g \in BOOLEAN :
    /\ \A n \in run[g].names :
         n.is_bsd => n.name = n.hdr + sizeof_ar_hdr /\ InBuf(n.name, n.len)
    /\ \A h \in run[g].visited :
         HeaderInBuf(h) /\ C4_IsExtended(h) /\ C4_NameOverruns(h) =>
           run[g].pc = "done" /\ run[g].outcome = "OutOfBounds"

\* Entry i of d's array points outside the file.
C5_EntryOutside(d, i) ==
  LET e == d.data + sizeof_uint32 + i * sizeof_ranlib
      strtab == d.data + d.ranlib_len + 2 * sizeof_uint32
  IN \/ ~InBuf(strtab + U32(e), 1)
     \/ ~InBuf(U32(e + sizeof_uint32), sizeof_ar_hdr)

\* The call d of dump_symdefs derives an offset outside the file.
C5_DerivedOutside(d) ==
  \/ ~InBuf(d.data, sizeof_uint32)
  \/ ~InBuf(d.data + sizeof_uint32, d.ranlib_len)
  \/ ~InBuf(d.data + d.ranlib_len + sizeof_uint32, sizeof_uint32)
  \/ \E i \in 0..((d.ranlib_len \div sizeof_ranlib) - 1) : C5_EntryOutside(d, i)

\* C5: dump_symdefs reads nothing outside the file, and a call of it that
\* derives an offset outside the file (the count field, the end of the
\* array, the string table's length field, an entry's string or an
\* entry's member header) ends the run in OutOfBounds.  Stated of the
\* calls made for a member whose name is an index name.
C5_DecoderBoundsChecked ==
  \A g \in BOOLEAN :
    \A d \in run[g].decodes :
      UntilNul(Bytes(arobj_name(d.hdr).name, arobj_name(d.hdr).len))
          \in {SYMDEF, SYMDEF_SORTED} =>
        /\ ~d.oob
        /\ C5_DerivedOutside(d) =>
             run[g].pc = "done" /\ run[g].outcome = "OutOfBounds"

\* The offset of the k-th struct ranlib of d's array.
C6_Entry(d, k) == d.data + sizeof_uint32 + (k - 1) * 8

\* The line p is the one the k-th struct ranlib of d's array stands for.
C6_PairOfEntry(p, d, k) ==
  LET strx == U32(C6_Entry(d, k))
      off == U32(C6_Entry(d, k) + 4)
      nm == arobj_name(off)
  IN /\ p.ran_strx = strx /\ p.ran_off = off
     /\ p.sym = CStr(d.data + d.ranlib_len + 8 + strx).v
     /\ p.member = UntilNul(Bytes(nm.name, nm.len))

\* C6: a call of dump_symdefs that returns has printed exactly
\* floor(ranlib_len / 8) pairs, the k-th made of the k-th struct ranlib of
\* the array: the string at its ran_strx in the string table and the name
\* of the header at its ran_off.  With both length fields 0 the call
\* returns and has printed nothing.
C6_OnePairPerEntry ==
  \A g \in BOOLEAN :
    \A d \in run[g].decodes :
      /\ d.completed =>
           /\ d.n = d.ranlib_len \div 8
           /\ \A k \in 1..d.n : C6_PairOfEntry(run[g].pairs[d.start + k], d, k)
      /\ d.ranlib_len = 0 /\ d.strtab_len = 0 => d.completed /\ d.n = 0

\* A run has decoded an index of two entries inside the file and printed
\* its two pairs, for two different symbols.
C6_Witness ==
  \E g \in BOOLEAN :
    \E d \in run[g].decodes :
      /\ d.completed /\ ~d.oob /\ d.ranlib_len = 16 /\ d.n = 2
      /\ run[g].pairs[d.start + 1].sym # run[g].pairs[d.start + 2].sym

\* C7: arobj_name returns a direct name exactly for a header whose name
\* field does not start with "#1/"; the name is then the field's bytes up
\* to its first NUL, or the whole field: at most 16 bytes, none of them 0.
C7_DirectName ==
  \A g \in BOOLEAN :
    \A n \in run[g].names :
      /\ n.is_bsd <=> C4_IsExtended(n.hdr)
      /\ ~n.is_bsd =>
           /\ n.name = n.hdr
           /\ n.len >= 0 /\ n.len <= 16
           /\ \A i \in 0..(n.len - 1) : Rd(n.hdr + i) # 0
           /\ n.len < 16 => Rd(n.hdr + n.len) = 0

\* A run has resolved a direct name cut at a NUL and one that fills the
\* field.
C7_Witness ==
  \E g \in BOOLEAN :
    \E n1, n2 \in run[g].names :
      /\ ~n1.is_bsd /\ n1.len > 0 /\ n1.len < 16
      /\ ~n2.is_bsd /\ n2.len = 16

\* The name of the header at h, as a string.
C8_ResolvedName(h) ==
  LET nm == arobj_name(h) IN UntilNul(Bytes(nm.name, nm.len))

\* C8: of the members a clean run has walked without failing, dump_symdefs
\* was called for exactly those whose resolved name is "__.SYMDEF" or
\* "__.SYMDEF SORTED".  The name is taken up to its first NUL, so the NUL
\* padding of an extended name does not count against the claim.
C8_DecoderIffIndexName ==
  \A g \in BOOLEAN :
    Clean(g) /\ Unfailed(g) =>
      \A h \in run[g].visited :
        (\E d \in run[g].decodes : d.hdr = h)
          <=> C8_ResolvedName(h) \in {SYMDEF, SYMDEF_SORTED}

\* C9: every iteration of a clean run that has not failed moved the offset
\* forward by at least a header, so after k iterations the offset is at
\* least 8 + 60 k, and iteration k started below the file's length: the
\* walk of a file of n bytes takes at most (n - 8) / 60 + 1 iterations.
C9_WalkAdvances ==
  \A g \in BOOLEAN :
    Clean(g) /\ Unfailed(g) =>
      /\ run[g].contents >= SARMAG + sizeof_ar_hdr * run[g].steps
      /\ run[g].steps >= 1 => SARMAG + sizeof_ar_hdr * (run[g].steps - 1) < length

\* The (symbol, member) pairs run g printed.
C10_Printed(g) ==
  [k \in 1..Len(run[g].pairs) |-> <<run[g].pairs[k].sym, run[g].pairs[k].member>>]

\* C10: the two runs over one file, once both have ended cleanly, ended
\* in the same outcome at the same offset and printed the same (symbol,
\* member) pairs.
C10_VerbosityOnlyReports ==
  (\A g \in BOOLEAN : run[g].pc = "done" /\ Clean(g)) =>
    /\ run[TRUE].outcome = run[FALSE].outcome
    /\ run[TRUE].contents = run[FALSE].contents
    /\ C10_Printed(TRUE) = C10_Printed(FALSE)

===========================================================================
